---- MODULE Spec2Model ----
(***************************************************************************)
(* The event-driven JSON builder of src/example/pegtl/json_build_two.cpp:   *)
(* the json_state the actions share, one action per specialisation of      *)
(* examples::action, the string_state / key_state accumulators, and main.   *)
(* Values live in a heap of cells addressed by shared_ptr; 0 is nullptr.    *)
(***************************************************************************)
EXTENDS Integers, Sequences, FiniteSets, TLC

\* Bounds of the model.
MaxNodes == 3
MaxStr == 1
MaxEvents == 3
MaxInput == 7

\* The characters a string or key is made of (the strings of the input are
\* the prefixes of Word), and the number literals.
Chars == {"a", "b"}
Word == <<"a", "b", "a", "b">>
NumTokens == {"20"}
Quote == "\""

VARIABLES
    result, keys, arrays, objects,  \* json_state
    heap,                           \* the values make_shared created
    acc,                            \* the string_state or key_state of the open string
    pending,                        \* actions the engine is about to call
    ctx,                            \* the rules the engine has open
    text,                           \* the input matched so far
    doc,                            \* the value the input was serialized from, if any
    unified,                        \* the same build on one stack of tagged frames
    mode,                           \* the rule being matched through disable_action
    log,                            \* the steps of this run, if they are recorded
    prev,                           \* the run before this one
    pc,                             \* where main is
    out                             \* what main printed

state == <<result, keys, arrays, objects>>
vars == <<result, keys, arrays, objects, heap, acc, pending, ctx, text, doc, pc, out,
          unified, mode, log, prev>>

----------------------------------------------------------------------------
\* The value classes (json_base and its subclasses), as heap cells.

NoMembers == [k \in {} |-> 0]

FreeCell == [tag |-> "free", live |-> FALSE, val |-> 0, str |-> <<>>,
             elems |-> <<>>, members |-> NoMembers]

Cell(tag, val, str) == [tag |-> tag, live |-> TRUE, val |-> val, str |-> str,
                        elems |-> <<>>, members |-> NoMembers]

Addrs == 1..MaxNodes

Allocated(h) == {a \in Addrs : h[a].tag # "free"}

HeapFull == Cardinality(Allocated(heap)) >= MaxNodes

\* std::make_shared: the address of the next cell.
make_shared(h) == Cardinality(Allocated(h)) + 1

Range(s) == {s[i] : i \in DOMAIN s}

Children(h, a) == Range(h[a].elems) \cup Range(h[a].members)

RECURSIVE Reach(_, _, _)
Reach(h, frontier, seen) ==
    IF frontier \subseteq seen THEN seen
    ELSE LET new == frontier \ seen
         IN Reach(h, UNION {Children(h, a) \ {0} : a \in new}, seen \cup new)

\* shared_ptr's destructor: a cell no pointer leads to any more is destroyed.
Sweep(h, roots) ==
    LET r == Reach(h, roots \ {0}, {})
    IN [a \in Addrs |->
          IF h[a].tag # "free" /\ a \notin r
          THEN [h[a] EXCEPT !.live = FALSE, !.elems = <<>>, !.members = NoMembers]
          ELSE h[a]]

\* std::map::operator[] followed by assignment.
Put(m, k, v) == [kk \in DOMAIN m \cup {k} |-> IF kk = k THEN v ELSE m[kk]]

\* The value a pointer leads to, as a tree.
RECURSIVE TreeOf(_, _)
TreeOf(h, a) ==
    IF a = 0
    THEN [tag |-> "nullptr", val |-> 0, str |-> <<>>, elems |-> <<>>, members |-> NoMembers]
    ELSE [tag |-> h[a].tag, val |-> h[a].val, str |-> h[a].str,
          elems |-> [i \in DOMAIN h[a].elems |-> TreeOf(h, h[a].elems[i])],
          members |-> [k \in DOMAIN h[a].members |-> TreeOf(h, h[a].members[k])]]

NoOutput == [tag |-> "nothing", val |-> 0, str |-> <<>>, elems |-> <<>>, members |-> NoMembers]

\* The text the number rule matched, and the value of a digit.
in_string(tok) == CASE tok = "20" -> <<"2", "0">> [] OTHER -> <<>>
Digit(c) == CASE c = "0" -> 0 [] c = "1" -> 1 [] c = "2" -> 2 [] OTHER -> 0

\* (mutant) the extraction stops after the first digit.
strtold_first_digit(s) == IF s = <<>> THEN 0 ELSE Digit(s[1])

\* operator>> of a stringstream into a long double, on a number literal.
RECURSIVE strtold(_)
strtold(s) == IF s = <<>> THEN 0 ELSE 10 * strtold(SubSeq(s, 1, Len(s) - 1)) + Digit(s[Len(s)])

----------------------------------------------------------------------------
\* Values as trees, and their text.

Leaf(tag, val, str) == [tag |-> tag, val |-> val, str |-> str, elems |-> <<>>,
                        members |-> NoMembers]
ArrayOf(es) == [tag |-> "array", val |-> 0, str |-> <<>>, elems |-> es,
                members |-> NoMembers]
ObjectOf(ms) == [tag |-> "object", val |-> 0, str |-> <<>>, elems |-> <<>>,
                 members |-> ms]

\* The order of std::map< std::string, ... >.
Rank(c) == CASE c = "a" -> 1 [] c = "b" -> 2 [] OTHER -> 0
RECURSIVE Less(_, _)
Less(x, y) ==
    IF y = <<>> THEN FALSE
    ELSE IF x = <<>> THEN TRUE
    ELSE IF x[1] # y[1] THEN Rank(x[1]) < Rank(y[1])
    ELSE Less(Tail(x), Tail(y))
Least(ks) == CHOOSE k \in ks : \A j \in ks \ {k} : Less(k, j)
RECURSIVE Sorted(_)
Sorted(ks) == IF ks = {} THEN <<>> ELSE <<Least(ks)>> \o Sorted(ks \ {Least(ks)})

\* The number a literal denotes.
NumberOf(tok) == CASE tok = "20" -> 20 [] OTHER -> 0

\* The text a number is printed as.
NumText(v) == CASE v = 20 -> "20" [] OTHER -> "0"

\* The text of a value: its tokens, a string character by character.
RECURSIVE Serialize(_), SerializeAll(_, _), SerializeMembers(_, _)
Serialize(t) ==
    CASE t.tag = "null" -> <<"null">>
      [] t.tag = "boolean" -> IF t.val = 1 THEN <<"true">> ELSE <<"false">>
      [] t.tag = "number" -> <<NumText(t.val)>>
      [] t.tag = "string" -> <<Quote>> \o t.str \o <<Quote>>
      [] t.tag = "array" -> <<"[">> \o SerializeAll(t.elems, 1) \o <<"]">>
      [] t.tag = "object" ->
            <<"{">> \o SerializeMembers(t.members, Sorted(DOMAIN t.members)) \o <<"}">>
      [] OTHER -> <<>>
SerializeAll(es, i) ==
    IF i > Len(es) THEN <<>>
    ELSE (IF i > 1 THEN <<",">> ELSE <<>>) \o Serialize(es[i]) \o SerializeAll(es, i + 1)
SerializeMembers(ms, ks) ==
    IF ks = <<>> THEN <<>>
    ELSE <<Quote>> \o ks[1] \o <<Quote, ":">> \o Serialize(ms[ks[1]])
           \o (IF Len(ks) > 1 THEN <<",">> ELSE <<>>) \o SerializeMembers(ms, Tail(ks))

\* The token at position i of a text, the end of the input after its last.
Next_token(toks, i) == IF i <= Len(toks) THEN toks[i] ELSE "eof"

----------------------------------------------------------------------------
\* The grammar pegtl::json::text under must<..., eof>, token by token: the
\* open rules, and the actions each token makes the engine call.

Event(name, arg) == [ev |-> name, arg |-> arg]

ExpectsValue(f) == f \in {"top", "arr0", "arrV", "objV"}

AfterValue(f) == CASE f = "top" -> "eof"
                   [] f \in {"arr0", "arrV"} -> "arrE"
                   [] f = "objV" -> "objE"
                   [] OTHER -> f

ValueEvents(f) == CASE f \in {"arr0", "arrV"} -> <<Event("array_element", <<>>)>>
                    [] f = "objV" -> <<Event("object_element", <<>>)>>
                    [] OTHER -> <<>>

Top(s) == s[Len(s)]
Pop(s) == SubSeq(s, 1, Len(s) - 1)
SetTop(s, f) == [s EXCEPT ![Len(s)] = f]

Matched(c, evs) == [ok |-> TRUE, ctx |-> c, events |-> evs]
Failed(c) == [ok |-> FALSE, ctx |-> c, events |-> <<>>]

\* A rule that produced a value has ended: the enclosing rule goes on.
Close(c, ev) ==
    LET p == Pop(c)
    IN Matched(SetTop(p, AfterValue(Top(p))), <<ev>> \o ValueEvents(Top(p)))

match(c, tok) ==
    LET f == Top(c) IN
    CASE f \in {"str", "key"} /\ tok \in Chars ->
            Matched(c, <<Event("unescape", <<tok>>)>>)
      [] f = "str" /\ tok = Quote -> Close(c, Event("string_success", <<>>))
      [] f = "key" /\ tok = Quote ->
            Matched(SetTop(Pop(c), "objC"), <<Event("key_success", <<>>)>>)
      [] ExpectsValue(f) /\ tok \in {"null", "true", "false"} ->
            Matched(SetTop(c, AfterValue(f)), <<Event(tok, <<>>)>> \o ValueEvents(f))
      [] ExpectsValue(f) /\ tok \in NumTokens ->
            Matched(SetTop(c, AfterValue(f)),
                    <<Event("number", in_string(tok))>> \o ValueEvents(f))
      [] ExpectsValue(f) /\ tok = Quote ->
            Matched(Append(c, "str"), <<Event("string_state", <<>>)>>)
      [] ExpectsValue(f) /\ tok = "[" ->
            Matched(Append(c, "arr0"), <<Event("array_begin", <<>>)>>)
      [] ExpectsValue(f) /\ tok = "{" ->
            Matched(Append(c, "obj0"), <<Event("object_begin", <<>>)>>)
      [] f \in {"arr0", "arrE"} /\ tok = "]" -> Close(c, Event("array_end", <<>>))
      [] f \in {"obj0", "objE"} /\ tok = "}" -> Close(c, Event("object_end", <<>>))
      [] f = "arrE" /\ tok = "," -> Matched(SetTop(c, "arrV"), <<>>)
      [] f = "objE" /\ tok = "," -> Matched(SetTop(c, "objK"), <<>>)
      [] f \in {"obj0", "objK"} /\ tok = Quote ->
            Matched(Append(c, "key"), <<Event("key_state", <<>>)>>)
      [] f = "objC" /\ tok = ":" -> Matched(SetTop(c, "objV"), <<>>)
      [] f = "eof" /\ tok = "eof" -> Matched(<<>>, <<>>)
      [] OTHER -> Failed(c)

Tokens == {"[", "]", "{", "}", ",", ":", "null", "true", "false", Quote, "eof"}
              \cup NumTokens \cup Chars

\* Inside a string every character is content; the model has those of Chars.
Offered(f) == IF f \in {"str", "key"} THEN Chars \cup {Quote, "eof"} ELSE Tokens

\* The characters that end a text at position i.
RECURSIVE CharsBack(_, _)
CharsBack(toks, i) ==
    IF i = 0 \/ toks[i] \notin Chars THEN <<>> ELSE CharsBack(toks, i - 1) \o <<toks[i]>>

\* The bounds: a token that opens a value needs a free cell for it, and a
\* string has room for MaxStr units.
Room(f, tok) ==
    /\ (f \in {"str", "key"} /\ tok \in Chars) =>
          LET n == Len(CharsBack(text, Len(text))) IN
          /\ n < MaxStr
          /\ n < Len(Word)
          /\ tok = Word[n + 1]
    /\ (f \notin {"str", "key"} /\ tok \in {"[", "{", "null", "true", "false", Quote, ","}
                                              \cup NumTokens)
          => ~HeapFull

----------------------------------------------------------------------------
\* The build restated on a single stack of tagged frames: a frame is the
\* Array or Object under construction, an Object's with the key of the member
\* in progress. Values are trees, not pointers.

Nothing == [tag |-> "nullptr", val |-> 0, str |-> <<>>, elems |-> <<>>,
            members |-> NoMembers]

Frame(v) == [val |-> v, key |-> <<>>, keyed |-> FALSE]

TopIs(u, tag) == u.frames # <<>> /\ Top(u.frames).val.tag = tag

UnifiedStep(u, e, unescaped) ==
    LET n == Len(u.frames) IN
    CASE e.ev = "null" -> [u EXCEPT !.result = Leaf("null", 0, <<>>)]
      [] e.ev = "true" -> [u EXCEPT !.result = Leaf("boolean", 1, <<>>)]
      [] e.ev = "false" -> [u EXCEPT !.result = Leaf("boolean", 0, <<>>)]
      [] e.ev = "number" -> [u EXCEPT !.result = Leaf("number", strtold(e.arg), <<>>)]
      [] e.ev = "string_success" -> [u EXCEPT !.result = Leaf("string", 0, unescaped)]
      [] e.ev = "key_success" /\ TopIs(u, "object") ->
            [u EXCEPT !.frames[n].key = unescaped, !.frames[n].keyed = TRUE]
      [] e.ev = "array_begin" -> [u EXCEPT !.frames = Append(@, Frame(ArrayOf(<<>>)))]
      [] e.ev = "object_begin" -> [u EXCEPT !.frames = Append(@, Frame(ObjectOf(NoMembers)))]
      [] e.ev = "array_element" /\ TopIs(u, "array") ->
            [u EXCEPT !.frames[n].val.elems = Append(@, u.result), !.result = Nothing]
      [] e.ev = "object_element" /\ TopIs(u, "object") /\ Top(u.frames).keyed ->
            [u EXCEPT !.frames[n].val.members = Put(@, Top(u.frames).key, u.result),
                      !.frames[n].keyed = FALSE,
                      !.result = Nothing]
      [] e.ev = "array_end" /\ TopIs(u, "array") ->
            [frames |-> Pop(u.frames), result |-> Top(u.frames).val]
      [] e.ev = "object_end" /\ TopIs(u, "object") ->
            [frames |-> Pop(u.frames), result |-> Top(u.frames).val]
      [] OTHER -> u

----------------------------------------------------------------------------
\* disable_action: the rule an action class derived from it is attached to is
\* matched with the apply mode the nested match is given.

ModeOff == [on |-> FALSE, A |-> "action", base |-> 0, frame |-> "", at |-> 0,
            ret |-> "none", outer |-> 0]

ValueStarts == {"null", "true", "false", Quote, "[", "{"} \cup NumTokens

\* The actions the engine calls under an apply mode.
Applied(A, events) == IF A = "action" THEN events ELSE <<>>

\* (mutant) the apply mode of the caller is passed on.
apply_mode_forwarded(A) == A

\* match< Rule, apply_mode::nothing, M, Action, Control >( in, st... )
apply_mode_nothing(A) == "nothing"

----------------------------------------------------------------------------
\* The record of a run: each step with the state it was taken in.

Snap == [result |-> result, keys |-> keys, arrays |-> arrays, objects |-> objects,
         heap |-> heap, acc |-> acc, pc |-> pc, out |-> out]

LogOff == [on |-> FALSE, steps |-> <<>>]
LogOn == [on |-> TRUE, steps |-> <<>>]

Logged(step, arg) ==
    IF log.on
    THEN [log EXCEPT !.steps = Append(@, [step |-> step, arg |-> arg, before |-> Snap])]
    ELSE log

NoRun == [ran |-> FALSE, steps |-> <<>>,
          end |-> [result |-> 0, keys |-> <<>>, arrays |-> <<>>, objects |-> <<>>,
                   heap |-> [a \in Addrs |-> FreeCell],
                   acc |-> [live |-> FALSE, kind |-> "", unescaped |-> <<>>],
                   pc |-> "parse", out |-> NoOutput]]

----------------------------------------------------------------------------
Start ==
    /\ result = 0
    /\ keys = <<>>
    /\ arrays = <<>>
    /\ objects = <<>>
    /\ heap = [a \in Addrs |-> FreeCell]
    /\ acc = [live |-> FALSE, kind |-> "", unescaped |-> <<>>]
    /\ pending = <<>>
    /\ ctx = <<"top">>
    /\ text = <<>>
    /\ pc = "parse"
    /\ out = NoOutput
    /\ unified = [frames |-> <<>>, result |-> Nothing]
    /\ mode = ModeOff

Init == Start /\ doc = NoOutput /\ log = LogOff /\ prev = NoRun

\* using grammar = must< json::text, eof >: a local failure is raised as a
\* parse_error, which nothing in main catches.
\* (mutant) the grammar without must<>: parse returns false and main goes on.
grammar_without_must == pc' = "parsed"

grammar == pc' = "error"

\* What the input can hold at the position the engine is at: the next token
\* of the text of doc, or any token when the input is not the text of a value.
Input ==
    IF doc # NoOutput THEN {Next_token(Serialize(doc), Len(text) + 1)}
    ELSE IF prev.ran
         THEN {prev.steps[i].step : i \in {Len(log.steps) + 1} \cap DOMAIN prev.steps}
         ELSE Tokens

\* The engine matches the next token of the input.
Match(tok) ==
    /\ pc = "parse"
    /\ pending = <<>>
    /\ ctx # <<>>
    /\ tok \in Offered(Top(ctx))
    /\ Room(Top(ctx), tok)
    /\ tok \in Input
    /\ log.on => Len(text) < MaxInput
    /\ log' = Logged(tok, <<>>)
    /\ LET m == match(ctx, tok)
           \* the rule matched through disable_action cannot start here
           fails == mode.on /\ Len(text) = mode.at /\ tok \notin ValueStarts
           \* or its last token is this one
           ends == /\ mode.on /\ ~fails /\ m.ok
                   /\ Len(m.ctx) = mode.base
                   /\ Top(m.ctx) = AfterValue(mode.frame)
           outer == ValueEvents(mode.frame)
           inner == IF ends THEN SubSeq(m.events, 1, Len(m.events) - Len(outer))
                    ELSE m.events
       IN
         IF m.ok
         THEN /\ ctx' = m.ctx
              /\ pending' = CASE ~mode.on \/ fails -> m.events
                               [] ends -> Applied(mode.A, inner) \o outer
                               [] OTHER -> Applied(mode.A, inner)
              /\ text' = Append(text, tok)
              /\ pc' = IF m.ctx = <<>> THEN "parsed" ELSE pc
              /\ mode' = CASE ~mode.on -> mode
                            [] fails -> [mode EXCEPT !.on = FALSE, !.ret = "false"]
                            [] ends ->
                                 [mode EXCEPT !.on = Applied(mode.A, inner) # <<>>,
                                              !.ret = "true",
                                              !.outer = Len(outer)]
                            [] OTHER -> mode
         ELSE /\ grammar
              /\ UNCHANGED <<ctx, pending, text>>
              /\ mode' = IF mode.on
                         THEN [mode EXCEPT !.on = FALSE,
                                           !.ret = IF fails THEN "false" ELSE "error"]
                         ELSE mode
    /\ UNCHANGED <<state, heap, acc, doc, out, unified, prev>>

\* The engine calls the action of the rule it matched; the build on one stack
\* of frames is given the same event.
Dispatch(name) ==
    /\ pc = "parse"
    /\ pending # <<>>
    /\ Head(pending).ev = name
    /\ pending' = Tail(pending)
    /\ unified' = UnifiedStep(unified, Head(pending), acc.unescaped)
    /\ mode' = IF mode.on /\ mode.ret = "true" /\ Len(pending) - 1 <= mode.outer
               THEN [mode EXCEPT !.on = FALSE]
               ELSE mode
    /\ log' = Logged(name, Head(pending).arg)
    /\ UNCHANGED <<ctx, text, doc, out, prev>>

Commit(res, ks, arrs, objs, h) ==
    /\ result' = res
    /\ keys' = ks
    /\ arrays' = arrs
    /\ objects' = objs
    /\ heap' = Sweep(h, {res} \cup Range(arrs) \cup Range(objs))
    /\ pc' = pc

New(cell) == [heap EXCEPT ![make_shared(heap)] = cell]

\* back() or pop_back() of an empty vector is undefined: the run may crash,
\* or go on, the result slot emptied by the move or left as it was.
Undefined ==
    \E o \in {"crash", "silent"} :
      IF o = "crash"
      THEN pc' = "crashed" /\ UNCHANGED <<state, heap>>
      ELSE /\ pc' = pc
           /\ result' \in {0, result}
           /\ keys' = keys /\ arrays' = arrays /\ objects' = objects
           /\ heap' = Sweep(heap, {result'} \cup Range(arrays) \cup Range(objects))

action_null ==
    /\ Dispatch("null")
    /\ Commit(make_shared(heap), keys, arrays, objects, New(Cell("null", 0, <<>>)))
    /\ UNCHANGED acc

action_true ==
    /\ Dispatch("true")
    /\ Commit(make_shared(heap), keys, arrays, objects, New(Cell("boolean", 1, <<>>)))
    /\ UNCHANGED acc

action_false ==
    /\ Dispatch("false")
    /\ Commit(make_shared(heap), keys, arrays, objects, New(Cell("boolean", 0, <<>>)))
    /\ UNCHANGED acc

action_number ==
    /\ Dispatch("number")
    /\ Commit(make_shared(heap), keys, arrays, objects,
              New(Cell("number", strtold(Head(pending).arg), <<>>)))
    /\ UNCHANGED acc

\* (mutant) one buffer shared by all strings: not emptied on entry.
string_state_shared_buffer ==
    /\ Dispatch("string_state")
    /\ acc' = [acc EXCEPT !.live = TRUE, !.kind = "string"]
    /\ UNCHANGED <<state, heap, pc>>

\* change_state constructs the new state when the rule is entered.
string_state ==
    /\ Dispatch("string_state")
    /\ acc' = [live |-> TRUE, kind |-> "string", unescaped |-> <<>>]
    /\ UNCHANGED <<state, heap, pc>>

key_state ==
    /\ Dispatch("key_state")
    /\ acc' = [live |-> TRUE, kind |-> "key", unescaped |-> <<>>]
    /\ UNCHANGED <<state, heap, pc>>

\* unescape_action appends what it decoded to the state's buffer.
unescape ==
    /\ Dispatch("unescape")
    /\ acc' = [acc EXCEPT !.unescaped = @ \o Head(pending).arg]
    /\ UNCHANGED <<state, heap, pc>>

string_state_success ==
    /\ Dispatch("string_success")
    /\ Commit(make_shared(heap), keys, arrays, objects,
              New(Cell("string", 0, acc.unescaped)))
    /\ acc' = [acc EXCEPT !.live = FALSE]

\* (mutant) the key is pushed when the state is left for any reason, and
\* again by success.
key_state_success_twice ==
    /\ Dispatch("key_success")
    /\ Commit(result, keys \o <<acc.unescaped, acc.unescaped>>, arrays, objects, heap)
    /\ acc' = [acc EXCEPT !.live = FALSE, !.unescaped = <<>>]

\* (mutant) the key is inserted at the bottom of the keys stack.
key_state_success_front ==
    /\ Dispatch("key_success")
    /\ Commit(result, <<acc.unescaped>> \o keys, arrays, objects, heap)
    /\ acc' = [acc EXCEPT !.live = FALSE, !.unescaped = <<>>]

key_state_success ==
    /\ Dispatch("key_success")
    /\ Commit(result, Append(keys, acc.unescaped), arrays, objects, heap)
    /\ acc' = [acc EXCEPT !.live = FALSE, !.unescaped = <<>>]

action_array_begin ==
    /\ Dispatch("array_begin")
    /\ Commit(result, keys, Append(arrays, make_shared(heap)), objects,
              New(Cell("array", 0, <<>>)))
    /\ UNCHANGED acc

\* (mutant) the result is copied into the array, not moved.
action_array_element_copy ==
    /\ Dispatch("array_element")
    /\ IF arrays = <<>>
       THEN Undefined
       ELSE Commit(result, keys, arrays, objects,
                   [heap EXCEPT ![Top(arrays)].elems = Append(@, result)])
    /\ UNCHANGED acc

\* (mutant) the element is inserted at the front.
action_array_element_front ==
    /\ Dispatch("array_element")
    /\ IF arrays = <<>>
       THEN Undefined
       ELSE Commit(0, keys, arrays, objects,
                   [heap EXCEPT ![Top(arrays)].elems = <<result>> \o @])
    /\ UNCHANGED acc

\* (mutant) arrays.front() for arrays.back(): the outermost array.
action_array_element_bottom ==
    /\ Dispatch("array_element")
    /\ IF arrays = <<>>
       THEN Undefined
       ELSE Commit(0, keys, arrays, objects,
                   [heap EXCEPT ![arrays[1]].elems = Append(@, result)])
    /\ UNCHANGED acc

action_array_element ==
    /\ Dispatch("array_element")
    /\ IF arrays = <<>>
       THEN Undefined
       ELSE Commit(0, keys, arrays, objects,
                   [heap EXCEPT ![Top(arrays)].elems = Append(@, result)])
    /\ UNCHANGED acc

\* (mutant) the array is copied to the result and stays on the stack.
action_array_end_no_pop ==
    /\ Dispatch("array_end")
    /\ IF arrays = <<>>
       THEN Undefined
       ELSE Commit(Top(arrays), keys, arrays, objects, heap)
    /\ UNCHANGED acc

\* (mutant) the array at the bottom of the stack is taken: front() and
\* erase(begin()).
action_array_end_front ==
    /\ Dispatch("array_end")
    /\ IF arrays = <<>>
       THEN Undefined
       ELSE Commit(arrays[1], keys, Tail(arrays), objects, heap)
    /\ UNCHANGED acc

action_array_end ==
    /\ Dispatch("array_end")
    /\ IF arrays = <<>>
       THEN Undefined
       ELSE Commit(Top(arrays), keys, Pop(arrays), objects, heap)
    /\ UNCHANGED acc

\* (mutant) the new object is inserted at the bottom of the stack.
action_object_begin_front ==
    /\ Dispatch("object_begin")
    /\ Commit(result, keys, arrays, <<make_shared(heap)>> \o objects,
              New(Cell("object", 0, <<>>)))
    /\ UNCHANGED acc

action_object_begin ==
    /\ Dispatch("object_begin")
    /\ Commit(result, keys, arrays, Append(objects, make_shared(heap)),
              New(Cell("object", 0, <<>>)))
    /\ UNCHANGED acc

\* (mutant) the key is left on the keys stack.
action_object_element_no_pop ==
    /\ Dispatch("object_element")
    /\ IF objects = <<>> \/ keys = <<>>
       THEN Undefined
       ELSE Commit(0, keys, arrays, objects,
                   [heap EXCEPT ![Top(objects)].members = Put(@, Top(keys), result)])
    /\ UNCHANGED acc

\* (mutant) std::map::emplace: an existing entry is kept.
action_object_element_emplace ==
    /\ Dispatch("object_element")
    /\ IF objects = <<>> \/ keys = <<>>
       THEN Undefined
       ELSE Commit(0, Pop(keys), arrays, objects,
                   [heap EXCEPT ![Top(objects)].members =
                       IF Top(keys) \in DOMAIN @ THEN @ ELSE Put(@, Top(keys), result)])
    /\ UNCHANGED acc

\* (mutant) the result is copied into the object, not moved.
action_object_element_copy ==
    /\ Dispatch("object_element")
    /\ IF objects = <<>> \/ keys = <<>>
       THEN Undefined
       ELSE Commit(result, Pop(keys), arrays, objects,
                   [heap EXCEPT ![Top(objects)].members = Put(@, Top(keys), result)])
    /\ UNCHANGED acc

action_object_element ==
    /\ Dispatch("object_element")
    /\ IF objects = <<>> \/ keys = <<>>
       THEN Undefined
       ELSE Commit(0, Pop(keys), arrays, objects,
                   [heap EXCEPT ![Top(objects)].members = Put(@, Top(keys), result)])
    /\ UNCHANGED acc

\* (mutant) the object is copied to the result and stays on the stack.
action_object_end_no_pop ==
    /\ Dispatch("object_end")
    /\ IF objects = <<>>
       THEN Undefined
       ELSE Commit(Top(objects), keys, arrays, objects, heap)
    /\ UNCHANGED acc

action_object_end ==
    /\ Dispatch("object_end")
    /\ IF objects = <<>>
       THEN Undefined
       ELSE Commit(Top(objects), keys, arrays, Pop(objects), heap)
    /\ UNCHANGED acc

\* main, after parse returned: the three asserts, then the result is printed.
\* (mutant) the asserts compiled out.
main_without_asserts ==
    /\ pc = "parsed"
    /\ pc' = "done" /\ out' = TreeOf(heap, result)
    /\ log' = Logged("main", <<>>)
    /\ UNCHANGED <<state, heap, acc, pending, ctx, text, doc, unified, mode, prev>>

main ==
    /\ pc = "parsed"
    /\ IF keys = <<>> /\ arrays = <<>> /\ objects = <<>>
       THEN pc' = "done" /\ out' = TreeOf(heap, result)
       ELSE pc' = "abort" /\ out' = out
    /\ log' = Logged("main", <<>>)
    /\ UNCHANGED <<state, heap, acc, pending, ctx, text, doc, unified, mode, prev>>

\* disable_action::match: the engine starts to match a value through it.
disable_action_match ==
    /\ pc = "parse"
    /\ pending = <<>>
    /\ ctx # <<>>
    /\ ExpectsValue(Top(ctx))
    /\ mode.ret = "none"
    /\ mode' = [on |-> TRUE, A |-> apply_mode_nothing(mode.A), base |-> Len(ctx),
                frame |-> Top(ctx), at |-> Len(text), ret |-> "pending", outer |-> 0]
    /\ UNCHANGED <<state, heap, acc, pending, ctx, text, doc, pc, out, unified, log, prev>>

Actions ==
    \/ action_null \/ action_true \/ action_false \/ action_number
    \/ string_state \/ key_state \/ unescape
    \/ string_state_success \/ key_state_success
    \/ action_array_begin \/ action_array_element \/ action_array_end
    \/ action_object_begin \/ action_object_element \/ action_object_end

Next ==
    \/ \E tok \in Input : Match(tok)
    \/ Actions
    \/ main

Spec == Init /\ [][Next]_vars

----------------------------------------------------------------------------
\* The run on the text of a given value: every value of at most MaxNodes
\* nodes, an object's keys distinct.

Strings == {SubSeq(Word, 1, n) : n \in {m \in 0..MaxStr : m <= Len(Word)}}

Leaves ==
    {Leaf("null", 0, <<>>), Leaf("boolean", 1, <<>>), Leaf("boolean", 0, <<>>)}
      \cup {Leaf("number", NumberOf(t), <<>>) : t \in NumTokens}
      \cup {Leaf("string", 0, str) : str \in Strings}

RECURSIVE TreesOfSize(_), Forests(_)
\* The sequences of values of n nodes in all.
Forests(n) ==
    IF n = 0 THEN {<<>>}
    ELSE UNION {{<<t>> \o f : t \in TreesOfSize(k), f \in Forests(n - k)} : k \in 1..n}
MemberMaps(n) ==
    UNION {{[k \in ks |-> f[CHOOSE i \in DOMAIN f : Sorted(ks)[i] = k]] :
               ks \in {x \in SUBSET Strings : Cardinality(x) = Len(f)}} : f \in Forests(n)}
TreesOfSize(n) ==
    IF n = 1 THEN Leaves \cup {ArrayOf(<<>>), ObjectOf(NoMembers)}
    ELSE {ArrayOf(f) : f \in Forests(n - 1)} \cup {ObjectOf(m) : m \in MemberMaps(n - 1)}

Trees == UNION {TreesOfSize(n) : n \in 1..MaxNodes}

InitRT == Start /\ doc \in Trees /\ log = LogOff /\ prev = NoRun

SpecRT == InitRT /\ [][Next]_vars

----------------------------------------------------------------------------
\* The program run twice on the same input of at most MaxInput tokens, the
\* steps of both runs recorded.

Ended == pc \in {"done", "error", "abort", "crashed"}

\* (mutant) the json_state and the values are kept from the run before.
main_again_static_state ==
    /\ log.on /\ ~prev.ran /\ Ended
    /\ prev' = [ran |-> TRUE, steps |-> log.steps, end |-> Snap]
    /\ log' = LogOn
    /\ acc' = [live |-> FALSE, kind |-> "", unescaped |-> <<>>]
    /\ pending' = <<>>
    /\ ctx' = <<"top">>
    /\ text' = <<>>
    /\ pc' = "parse"
    /\ out' = NoOutput
    /\ unified' = [frames |-> <<>>, result |-> Nothing]
    /\ mode' = ModeOff
    /\ UNCHANGED <<state, heap, doc>>

\* main is entered again: a new json_state, the same file.
main_again ==
    /\ log.on /\ ~prev.ran /\ Ended
    /\ prev' = [ran |-> TRUE, steps |-> log.steps, end |-> Snap]
    /\ log' = LogOn
    /\ result' = 0
    /\ keys' = <<>>
    /\ arrays' = <<>>
    /\ objects' = <<>>
    /\ heap' = [a \in Addrs |-> FreeCell]
    /\ acc' = [live |-> FALSE, kind |-> "", unescaped |-> <<>>]
    /\ pending' = <<>>
    /\ ctx' = <<"top">>
    /\ text' = <<>>
    /\ pc' = "parse"
    /\ out' = NoOutput
    /\ unified' = [frames |-> <<>>, result |-> Nothing]
    /\ mode' = ModeOff
    /\ UNCHANGED doc

InitTwice == Start /\ doc = NoOutput /\ log = LogOn /\ prev = NoRun

NextTwice ==
    \/ \E tok \in Input : Match(tok)
    \/ Actions
    \/ main
    \/ main_again

SpecTwice == InitTwice /\ [][NextTwice]_vars

\* The run on the text of a value, one of its values matched through
\* disable_action.
NextDisabled ==
    \/ \E tok \in Input : Match(tok)
    \/ Actions
    \/ main
    \/ disable_action_match

SpecDisabled == InitRT /\ [][NextDisabled]_vars

----------------------------------------------------------------------------
\* The actions driven by an arbitrary caller instead of the grammar: any
\* event in any order, balanced or not. Only the nesting of a string or key
\* state is kept, which the scope of the state object in change_state gives.

RawChars == {"a", "b"}

RawEvents ==
    IF acc.live
    THEN {Event("unescape", <<c>>) : c \in RawChars}
           \cup {Event(IF acc.kind = "key" THEN "key_success" ELSE "string_success", <<>>)}
    ELSE {Event(n, <<>>) : n \in {"null", "true", "false", "string_state", "key_state",
                                  "array_begin", "array_element", "array_end",
                                  "object_begin", "object_element", "object_end"}}
           \cup {Event("number", in_string(t)) : t \in NumTokens}

Allocates(e) == e.ev \in {"null", "true", "false", "number", "string_state",
                          "array_begin", "object_begin"}

RawEmit(e) ==
    /\ pc = "parse"
    /\ pending = <<>>
    /\ Len(text) < MaxEvents
    /\ e \in RawEvents
    /\ Allocates(e) => ~HeapFull
    /\ pending' = <<e>>
    /\ text' = Append(text, e.ev)
    /\ UNCHANGED <<state, heap, acc, ctx, doc, pc, out, unified, mode, log, prev>>

\* parse returns true.
RawReturn ==
    /\ pc = "parse"
    /\ pending = <<>>
    /\ ~acc.live
    /\ pc' = "parsed"
    /\ UNCHANGED <<state, heap, acc, pending, ctx, text, doc, out, unified, mode, log, prev>>

AllEvents ==
    {Event(n, <<>>) : n \in {"null", "true", "false", "string_state", "key_state",
                             "string_success", "key_success",
                             "array_begin", "array_element", "array_end",
                             "object_begin", "object_element", "object_end"}}
      \cup {Event("number", in_string(t)) : t \in NumTokens}
      \cup {Event("unescape", <<c>>) : c \in RawChars}

NextRaw ==
    \/ \E e \in AllEvents : RawEmit(e)
    \/ Actions
    \/ RawReturn
    \/ main

SpecRaw == Init /\ [][NextRaw]_vars

----------------------------------------------------------------------------
\* Reference evaluation of a document, by recursive descent over its text.


\* The characters from position i up to the closing quote.
RECURSIVE StringAt(_, _)
StringAt(toks, i) ==
    IF i > Len(toks) \/ toks[i] = Quote THEN <<>> ELSE <<toks[i]>> \o StringAt(toks, i + 1)

\* The members of an object as the text lists them: <<key, value>> pairs.
LastOf(ms, k) == ms[CHOOSE i \in DOMAIN ms :
                       ms[i][1] = k /\ \A j \in DOMAIN ms : ms[j][1] = k => j <= i][2]
MapOf(ms) == [k \in {ms[i][1] : i \in DOMAIN ms} |-> LastOf(ms, k)]

RECURSIVE RefValue(_, _), RefElements(_, _, _), RefMembers(_, _, _)
RefValue(toks, i) ==
    LET tok == toks[i] IN
    CASE tok = "null" -> [t |-> Leaf("null", 0, <<>>), n |-> i + 1]
      [] tok = "true" -> [t |-> Leaf("boolean", 1, <<>>), n |-> i + 1]
      [] tok = "false" -> [t |-> Leaf("boolean", 0, <<>>), n |-> i + 1]
      [] tok \in NumTokens -> [t |-> Leaf("number", NumberOf(tok), <<>>), n |-> i + 1]
      [] tok = Quote -> LET s == StringAt(toks, i + 1)
                        IN [t |-> Leaf("string", 0, s), n |-> i + Len(s) + 2]
      [] tok = "[" -> RefElements(toks, i + 1, <<>>)
      [] tok = "{" -> RefMembers(toks, i + 1, <<>>)
      [] OTHER -> [t |-> NoOutput, n |-> i + 1]
RefElements(toks, i, sofar) ==
    IF i > Len(toks) \/ toks[i] = "]" THEN [t |-> ArrayOf(sofar), n |-> i + 1]
    ELSE IF toks[i] = "," THEN RefElements(toks, i + 1, sofar)
    ELSE LET v == RefValue(toks, i) IN RefElements(toks, v.n, Append(sofar, v.t))
RefMembers(toks, i, sofar) ==
    IF i > Len(toks) \/ toks[i] = "}" THEN [t |-> ObjectOf(MapOf(sofar)), n |-> i + 1]
    ELSE IF toks[i] = "," THEN RefMembers(toks, i + 1, sofar)
    ELSE LET k == StringAt(toks, i + 1)
             v == RefValue(toks, i + Len(k) + 3)
         IN RefMembers(toks, v.n, Append(sofar, <<k, v.t>>))

RefEval(toks) == RefValue(toks, 1).t

Complete == pc \in {"parsed", "done", "abort"}
Doc(toks) == pc = "parsed" /\ text = toks \o <<"eof">>

----------------------------------------------------------------------------
\* C1: when the parse of a well-formed document has completed, the arrays,
\* objects and keys stacks are empty and the result slot holds a value.
C1_StacksEmptyAtCompletion ==
    Complete => /\ keys = <<>> /\ arrays = <<>> /\ objects = <<>>
                /\ result # 0 /\ heap[result].live

\* A nested document has been parsed: {"a":[20]}.
C1_Witness ==
    /\ Doc(<<"{", Quote, "a", Quote, ":", "[", "20", "]", "}">>)
    /\ keys = <<>> /\ arrays = <<>> /\ objects = <<>> /\ result # 0

\* C2: the value in the result slot after the run is the tree the reference
\* evaluation of the document gives.
C2_ResultIsReferenceTree ==
    Complete => TreeOf(heap, result) = RefEval(text)

\* [null, 20] has been built as an Array of Null and 20, in that order.
C2_Witness ==
    /\ Doc(<<"[", "null", ",", "20", "]">>)
    /\ TreeOf(heap, result) =
         ArrayOf(<<Leaf("null", 0, <<>>), Leaf("number", 20, <<>>)>>)

\* The step the engine is about to take is the call of this action.
Calls(name) == pc = "parse" /\ pending # <<>> /\ Head(pending).ev = name

\* C3: an object-element event inserts the value of the result slot under the
\* key on top of the keys stack, overwriting an entry the key already has, and
\* changes no entry of another key: the last occurrence of a key wins.
C3_LastKeyWins ==
    [][Calls("object_element") =>
          LET o == Top(objects)
              k == Top(keys)
          IN /\ DOMAIN heap'[o].members = DOMAIN heap[o].members \cup {k}
             /\ heap'[o].members[k] = result
             /\ TreeOf(heap', heap'[o].members[k]) = TreeOf(heap, result)
             /\ \A kk \in DOMAIN heap[o].members \ {k} :
                   /\ heap'[o].members[kk] = heap[o].members[kk]
                   /\ TreeOf(heap', heap'[o].members[kk]) = TreeOf(heap, heap[o].members[kk])
      ]_vars

\* {"a":null,"a":20 has been read: the one entry of "a" is 20.
C3_Witness ==
    /\ text = <<"{", Quote, "a", Quote, ":", "null", ",", Quote, "a", Quote, ":", "20">>
    /\ pending = <<>>
    /\ DOMAIN heap[Top(objects)].members = {<<"a">>}
    /\ TreeOf(heap, heap[Top(objects)].members[<<"a">>]) = Leaf("number", 20, <<>>)

\* C4: a syntax failure ends the run in the failure outcome: the step that
\* finds it raises the error, nothing runs after it, and nothing is printed
\* for an input the grammar did not accept to its end.
C4_SyntaxFailurePropagates ==
    /\ [](pc = "error" => out = NoOutput)
    /\ [](out # NoOutput => (text # <<>> /\ text[Len(text)] = "eof"))
    /\ [][/\ pc # "error"
          /\ (pc = "parse" /\ pending = <<>> /\ text' = text) => pc' = "error"]_vars

\* {"a": followed by } : the failure is raised with an object and a key open.
C4_Witness ==
    /\ pc = "error"
    /\ text = <<"{", Quote, "a", Quote, ":">>
    /\ objects # <<>> /\ keys = <<<<"a">>>>
    /\ out = NoOutput

\* An element or end action is called with the stack it reads empty.
Unbalanced ==
    \/ (Calls("array_element") \/ Calls("array_end")) /\ arrays = <<>>
    \/ Calls("object_end") /\ objects = <<>>
    \/ Calls("object_element") /\ (objects = <<>> \/ keys = <<>>)

\* C5: an element or end event that arrives with its stack empty takes the
\* handler to a fatal error state; it does not go on to read or pop the stack.
C5_UnbalancedIsFatal ==
    [][Unbalanced => pc' = "crashed"]_vars

\* C6: after a parse that returned, main succeeds only with the three stacks
\* empty; with one of them non-empty the run is aborted, which is not the
\* syntax-failure outcome, and nothing is printed.
StacksEmpty == keys = <<>> /\ arrays = <<>> /\ objects = <<>>
C6_PostConditionCheck ==
    /\ pc = "done" => StacksEmpty
    /\ (pc \in {"done", "abort"} /\ ~StacksEmpty) => (pc = "abort" /\ out = NoOutput)
    /\ pc = "abort" => ~StacksEmpty

\* parse returned after an array-begin that no array-end followed.
C6_Witness ==
    /\ pc = "abort"
    /\ arrays # <<>>
    /\ out = NoOutput

\* A leaf event has been handled: a value of a leaf class exists.
LeafProduced == \E a \in Addrs : heap[a].tag \in {"null", "boolean", "number", "string"}

ValueEventNames == {"null", "true", "false", "number", "string_success",
                    "array_end", "object_end"}

\* C7 (as claimed): once the first leaf has been produced the result slot is
\* never empty.
C7_NeverEmptyAfterFirstLeaf == LeafProduced => result # 0

\* C7 (amended): the result slot is empty at the start of the run and after
\* every array-element and object-element event, which move its value out; it
\* holds a live value after every leaf, string-exit, array-end and object-end
\* event; every other step leaves it as it is.
C7_ResultSlot ==
    /\ [](text = <<>> => result = 0)
    /\ [][/\ (Calls("array_element") \/ Calls("object_element")) => result' = 0
          /\ (\E n \in ValueEventNames : Calls(n)) => (result' # 0 /\ heap'[result'].live)
          /\ ~(\E n \in ValueEventNames \cup {"array_element", "object_element"} : Calls(n))
                => result' = result]_vars

\* [20 has been read and the 20 moved into the array: the slot is empty again.
C7_Witness ==
    /\ text = <<"[", "20">>
    /\ pending = <<>>
    /\ LeafProduced
    /\ result = 0
    /\ heap[Top(arrays)].elems # <<>>

\* The pointers to a value: the result slot, the entries of the two stacks and
\* the child positions of the containers.
Occ(s, a) == Cardinality({i \in DOMAIN s : s[i] = a})
RECURSIVE ChildOcc(_, _, _)
ChildOcc(h, S, a) ==
    IF S = {} THEN 0
    ELSE LET c == CHOOSE x \in S : TRUE
         IN Occ(h[c].elems, a) + Occ(h[c].members, a) + ChildOcc(h, S \ {c}, a)
Owners(res, arrs, objs, h, a) ==
    (IF res = a THEN 1 ELSE 0) + Occ(arrs, a) + Occ(objs, a) + ChildOcc(h, Allocated(h), a)

\* C8: between handler steps every value has at most one owner; an element
\* event leaves the moved value owned by the container alone and the result
\* slot empty; an end event leaves the closed container owned by the result
\* slot alone and off its stack.
C8_SingleOwner ==
    /\ [](\A a \in Allocated(heap) : Owners(result, arrays, objects, heap, a) <= 1)
    /\ [][/\ Calls("array_element") =>
                /\ result' = 0
                /\ heap'[Top(arrays)].elems = Append(heap[Top(arrays)].elems, result)
                /\ Owners(result', arrays', objects', heap', result) = 1
          /\ Calls("object_element") =>
                /\ result' = 0
                /\ heap'[Top(objects)].members[Top(keys)] = result
                /\ Owners(result', arrays', objects', heap', result) = 1
          /\ Calls("array_end") =>
                /\ result' = Top(arrays)
                /\ Occ(arrays', result') = 0
                /\ Owners(result', arrays', objects', heap', result') = 1
          /\ Calls("object_end") =>
                /\ result' = Top(objects)
                /\ Occ(objects', result') = 0
                /\ Owners(result', arrays', objects', heap', result') = 1
         ]_vars

\* [[20] has been read and the inner array closed: it is in the result slot,
\* off the stack, not yet in the outer array.
C8_Witness ==
    /\ text = <<"[", "[", "20", "]">>
    /\ Calls("array_element")
    /\ result # 0 /\ heap[result].tag = "array" /\ heap[result].elems # <<>>
    /\ Occ(arrays, result) = 0
    /\ Owners(result, arrays, objects, heap, result) = 1

\* C9: the run on the text of a value without duplicate keys builds that value.
C9_RoundTrip ==
    (doc # NoOutput /\ Complete) => TreeOf(heap, result) = doc

\* The object {"": 20, "a": [ ]} has been serialized and built again.
C9_Witness ==
    /\ pc = "parsed"
    /\ doc = ObjectOf([k \in {<<>>, <<"a">>} |->
                          IF k = <<>> THEN Leaf("number", 20, <<>>) ELSE ArrayOf(<<>>)])
    /\ TreeOf(heap, result) = doc

\* The units of the string or key the input has just closed.
UnitsOf(toks) == CharsBack(toks, Len(toks) - 1)

SuccessPending == {i \in DOMAIN pending : pending[i].ev \in {"string_success", "key_success"}}

\* C10: a string or key production starts a state with an empty buffer; its
\* success hook is called once, when the closing quote has been matched, with
\* exactly the units of that production in order; for a string it replaces the
\* result by a new String and leaves the three stacks, for a key it pushes one
\* key and leaves the result and the other two stacks.
C10_Accumulator ==
    /\ [](SuccessPending # {} => acc.live)
    /\ [][/\ (Calls("string_state") \/ Calls("key_state")) =>
                (acc'.live /\ acc'.unescaped = <<>> /\ UNCHANGED <<state, heap>>)
          /\ Calls("unescape") =>
                (acc'.unescaped = acc.unescaped \o Head(pending).arg /\ UNCHANGED <<state, heap>>)
          /\ (pc = "parse" /\ pending = <<>> /\ acc.live /\ text' = Append(text, Quote)) =>
                Cardinality({i \in DOMAIN pending' :
                                pending'[i].ev \in {"string_success", "key_success"}}) = 1
          /\ Calls("string_success") =>
                /\ result' \notin Allocated(heap) \cup {0}
                /\ heap'[result'].tag = "string"
                /\ heap'[result'].str = UnitsOf(text)
                /\ UNCHANGED <<keys, arrays, objects>>
                /\ ~acc'.live
          /\ Calls("key_success") =>
                /\ keys' = Append(keys, UnitsOf(text))
                /\ UNCHANGED <<result, arrays, objects, heap>>
                /\ ~acc'.live
         ]_vars

\* ["a","" has been read: the second string is empty, the first is "a".
C10_Witness ==
    /\ text = <<"[", Quote, "a", Quote, ",", Quote, Quote>>
    /\ Calls("array_element")
    /\ result # 0 /\ heap[result].tag = "string" /\ heap[result].str = <<>>
    /\ TreeOf(heap, Top(arrays)).elems = <<Leaf("string", 0, <<"a">>)>>

----------------------------------------------------------------------------
\* C14: an array-element event with a non-empty arrays stack appends the value
\* of the result slot as the new last element of the array on top (one longer,
\* the earlier elements in their order), empties the result slot, and leaves
\* the arrays stack, every array below the top, the objects stack and the keys
\* stack as they were.
C14_ArrayElementFrame ==
    [][(Calls("array_element") /\ arrays # <<>>) =>
          LET a == Top(arrays) IN
          /\ heap'[a].elems = Append(heap[a].elems, result)
          /\ Len(heap'[a].elems) = Len(heap[a].elems) + 1
          /\ \A i \in DOMAIN heap[a].elems :
                TreeOf(heap', heap'[a].elems[i]) = TreeOf(heap, heap[a].elems[i])
          /\ TreeOf(heap', Top(heap'[a].elems)) = TreeOf(heap, result)
          /\ result' = 0
          /\ arrays' = arrays
          /\ \A i \in 1..(Len(arrays) - 1) : heap'[arrays[i]] = heap[arrays[i]]
          /\ objects' = objects
          /\ \A i \in DOMAIN objects : heap'[objects[i]] = heap[objects[i]]
          /\ keys' = keys
      ]_vars

\* [[],20 has been read: the 20 is the second element of the outer array,
\* after the inner array.
C14_Witness ==
    /\ text = <<"[", "[", "]", ",", "20">>
    /\ pending = <<>>
    /\ result = 0
    /\ Len(arrays) = 1
    /\ TreeOf(heap, Top(arrays)).elems = <<ArrayOf(<<>>), Leaf("number", 20, <<>>)>>

\* The entries of a stack below its top, and what they point to, are the same
\* after the step.
BelowTopKept(s) == \A i \in 1..(Len(s) - 1) : heap'[s[i]] = heap[s[i]]
AllKept(s) == \A i \in DOMAIN s : heap'[s[i]] = heap[s[i]]

\* The step creates one container of this class, empty, at address a.
Begun(a, tag) ==
    /\ a \notin Allocated(heap)
    /\ heap'[a] = Cell(tag, 0, <<>>)
    /\ \A b \in Addrs \ {a} : heap'[b] = heap[b]

\* C15: array-begin (object-begin) pushes one new empty Array (Object) on its
\* stack and changes nothing else; array-end (object-end) removes the top
\* entry of its stack, which is the array (object) begun last among those not
\* yet ended, makes it the result with everything it collected, and leaves the
\* other stack, the keys stack and the entries below the top as they were.
C15_BeginEndLifo ==
    [][/\ Calls("array_begin") =>
             /\ \E a \in Addrs : arrays' = Append(arrays, a) /\ Begun(a, "array")
             /\ UNCHANGED <<result, keys, objects>>
       /\ Calls("object_begin") =>
             /\ \E a \in Addrs : objects' = Append(objects, a) /\ Begun(a, "object")
             /\ UNCHANGED <<result, keys, arrays>>
       /\ Calls("array_end") =>
             /\ arrays # <<>>
             /\ arrays' = Pop(arrays)
             /\ \A i \in DOMAIN arrays : arrays[i] <= Top(arrays)
             /\ result' = Top(arrays)
             /\ heap'[result'].tag = "array"
             /\ TreeOf(heap', result') = TreeOf(heap, Top(arrays))
             /\ BelowTopKept(arrays) /\ AllKept(objects)
             /\ UNCHANGED <<keys, objects>>
       /\ Calls("object_end") =>
             /\ objects # <<>>
             /\ objects' = Pop(objects)
             /\ \A i \in DOMAIN objects : objects[i] <= Top(objects)
             /\ result' = Top(objects)
             /\ heap'[result'].tag = "object"
             /\ TreeOf(heap', result') = TreeOf(heap, Top(objects))
             /\ BelowTopKept(objects) /\ AllKept(arrays)
             /\ UNCHANGED <<keys, arrays>>
      ]_vars

\* {"a":{"":null} has been read: with two objects open the inner one, begun
\* last, has been closed with its member, and the outer one is still open.
C15_Witness ==
    /\ text = <<"{", Quote, "a", Quote, ":", "{", Quote, Quote, ":", "null", "}">>
    /\ Calls("object_element")
    /\ result = 2
    /\ TreeOf(heap, result) = ObjectOf([k \in {<<>>} |-> Leaf("null", 0, <<>>)])
    /\ objects = <<1>>
    /\ keys = <<<<"a">>>>

\* C19: the result slot is empty whenever a leaf, string-exit, array-end or
\* object-end event writes to it, and holds a live value whenever an
\* array-element or object-element event reads it; a value leaves the slot
\* only by an element event, which makes it a child of one container, once;
\* no container has an empty child; and a completed run has its root in the
\* slot.
C19_NothingLostOrDoubled ==
    /\ [](\A n \in ValueEventNames : Calls(n) => result = 0)
    /\ [](\A n \in {"array_element", "object_element"} :
             Calls(n) => (result # 0 /\ heap[result].live))
    /\ [](\A a \in Allocated(heap) : 0 \notin Children(heap, a))
    /\ [](Complete => (result # 0 /\ heap[result].live))
    /\ [][/\ (result # 0 /\ result' # result) =>
                (Calls("array_element") \/ Calls("object_element"))
          /\ (Calls("array_element") \/ Calls("object_element")) =>
                /\ ChildOcc(heap, Allocated(heap), result) = 0
                /\ ChildOcc(heap', Allocated(heap'), result) = 1
                /\ heap'[result].live]_vars

\* {"a":[]} is being read: the array-end event has written the closed array to
\* the empty slot and the object-element event is about to read it.
C19_Witness ==
    /\ text = <<"{", Quote, "a", Quote, ":", "[", "]">>
    /\ Calls("object_element")
    /\ result # 0 /\ heap[result].tag = "array" /\ heap[result].live
    /\ ChildOcc(heap, Allocated(heap), result) = 0

\* How many tokens of a text, or events of a queue, are of a given set.
CountOf(s, S) == Cardinality({i \in DOMAIN s : s[i] \in S})
PendingOf(S) == Cardinality({i \in DOMAIN pending : pending[i].ev \in S})

\* The containers begun and not yet ended: the brackets the input has opened
\* and not closed, less the begin and plus the end events still to be called.
OpenContainers ==
    (CountOf(text, {"[", "{"}) - PendingOf({"array_begin", "object_begin"}))
      - (CountOf(text, {"]", "}"}) - PendingOf({"array_end", "object_end"}))

\* The nesting depth of a value.
RECURSIVE Depth(_), MaxDepth(_)
MaxDepth(ts) == IF ts = {} THEN 0
                ELSE LET t == CHOOSE x \in ts : TRUE
                         d == Depth(t)
                         m == MaxDepth(ts \ {t})
                     IN IF d > m THEN d ELSE m
Depth(t) ==
    CASE t.tag = "array" -> 1 + MaxDepth(Range(t.elems))
      [] t.tag = "object" -> 1 + MaxDepth(Range(t.members))
      [] OTHER -> 0

\* C16: in a run on the text of a value of nesting depth D the heights of the
\* arrays and the objects stack add up to the number of containers open, which
\* is at most D.
C16_StackHeights ==
    doc # NoOutput =>
       /\ Len(arrays) + Len(objects) = OpenContainers
       /\ Len(arrays) + Len(objects) <= Depth(doc)

\* In a document of depth 2, an object in an array, both are open.
C16_Witness ==
    /\ Depth(doc) = 2
    /\ Len(arrays) = 1 /\ Len(objects) = 1
    /\ OpenContainers = 2
    /\ text = <<"[", "{">>

\* The open objects with a member in progress: its key has been read and its
\* value not yet stored. The engine is past the key while key_state::success
\* is still to be called, and past the value while the object-element action
\* is still to be called.
MembersInProgress ==
    (CountOf(ctx, {"objC", "objV"}) - PendingOf({"key_success"}))
      + PendingOf({"object_element"})

\* C18: the keys stack is never higher than the objects stack: every open
\* object with a member in progress has one key on it and no other object has
\* any; an object that is closed has none.
C18_KeysWithinObjects ==
    /\ [](Len(keys) <= Len(objects))
    /\ [](pc \in {"parse", "parsed", "done"} => Len(keys) = MembersInProgress)
    /\ [][Calls("object_end") =>
             (Len(keys) < Len(objects) /\ Len(keys') <= Len(objects'))]_vars

\* {"a":{"": has been read: two objects are open, each with its key pending.
C18_Witness ==
    /\ text = <<"{", Quote, "a", Quote, ":", "{", Quote, Quote, ":">>
    /\ Len(objects) = 2
    /\ keys = <<<<"a">>, <<>>>>
    /\ MembersInProgress = 2

\* Reading a text backwards from position i: the bracket that opened the
\* container position i is in (0 if none), d counting the containers closed
\* on the way.
RECURSIVE OpenOf(_, _, _)
OpenOf(toks, i, d) ==
    IF i = 0 THEN 0
    ELSE IF toks[i] \in {"]", "}"} THEN OpenOf(toks, i - 1, d + 1)
    ELSE IF toks[i] \in {"[", "{"}
         THEN IF d = 0 THEN i ELSE OpenOf(toks, i - 1, d - 1)
    ELSE OpenOf(toks, i - 1, d)

\* The last quote at or before position i.
RECURSIVE QuoteBefore(_, _)
QuoteBefore(toks, i) ==
    IF i = 0 \/ toks[i] = Quote THEN i ELSE QuoteBefore(toks, i - 1)

\* Where the value that ends at position e starts.
ValueStart(toks, e) ==
    IF toks[e] \in {"]", "}"} THEN OpenOf(toks, e - 1, 0)
    ELSE IF toks[e] = Quote THEN QuoteBefore(toks, e - 1)
    ELSE e

\* The key of the member whose value starts at position s: the characters
\* between the quotes before the colon.
KeyBefore(toks, s) ==
    LET q == QuoteBefore(toks, s - 3) IN SubSeq(toks, q + 1, s - 3)

\* The keys of the members the value that starts at position s is inside of,
\* the outermost first, its own last.
RECURSIVE KeysAround(_, _)
KeysAround(toks, s) ==
    IF s = 0 THEN <<>>
    ELSE KeysAround(toks, OpenOf(toks, s - 1, 0))
           \o (IF s > 1 /\ toks[s - 1] = ":" THEN <<KeyBefore(toks, s)>> ELSE <<>>)

\* C12: at each object-element event the key on top of the keys stack is the
\* key of the member whose value has just ended, whatever keys the value
\* pushed and popped inside, and the entries below it are the keys of the
\* members that value is nested in, outermost first.
C12_KeyOfSameMember ==
    Calls("object_element") =>
       /\ keys # <<>>
       /\ Top(keys) = KeyBefore(text, ValueStart(text, Len(text)))
       /\ keys = KeysAround(text, ValueStart(text, Len(text)))

\* {"a":{"":null} has been read: the inner object pushed and popped its key
\* "", and the key on top for the outer member is "a" again.
C12_Witness ==
    /\ text = <<"{", Quote, "a", Quote, ":", "{", Quote, Quote, ":", "null", "}">>
    /\ Calls("object_element")
    /\ keys = <<<<"a">>>>
    /\ heap[result].tag = "object" /\ DOMAIN heap[result].members = {<<>>}

\* The frames of one class, bottom first, as values.
FramesOf(tag) ==
    LET f == SelectSeq(unified.frames, LAMBDA x : x.val.tag = tag)
    IN [i \in DOMAIN f |-> f[i].val]
TreesOn(stack) == [i \in DOMAIN stack |-> TreeOf(heap, stack[i])]

\* C13: run side by side on the events of the grammar, the arrays and the
\* objects stack hold what the array and the object frames of the single stack
\* hold, in the same order; the container an array-end (object-end) event pops
\* is the one on top of the single stack; and the two result slots hold the
\* same value after every event.
C13_OneStackOfFrames ==
    /\ TreeOf(heap, result) = unified.result
    /\ Len(unified.frames) = Len(arrays) + Len(objects)
    /\ TreesOn(arrays) = FramesOf("array")
    /\ TreesOn(objects) = FramesOf("object")
    /\ (Calls("array_end") \/ Calls("array_element")) =>
          /\ arrays # <<>> /\ unified.frames # <<>>
          /\ Top(unified.frames).val = TreeOf(heap, Top(arrays))
    /\ (Calls("object_end") \/ Calls("object_element")) =>
          /\ objects # <<>> /\ unified.frames # <<>>
          /\ Top(unified.frames).val = TreeOf(heap, Top(objects))
    /\ Calls("object_element") =>
          (keys # <<>> /\ Top(unified.frames).keyed /\ Top(unified.frames).key = Top(keys))

\* [{"":[] is being read: an array in an object in an array, and the inner
\* array, on top of both its own stack and the single stack, is about to be
\* popped.
C13_Witness ==
    /\ text = <<"[", "{", Quote, Quote, ":", "[", "]">>
    /\ Calls("array_end")
    /\ Len(arrays) = 2 /\ Len(objects) = 1
    /\ [i \in DOMAIN unified.frames |-> unified.frames[i].val.tag]
          = <<"array", "object", "array">>
    /\ Top(unified.frames).val = TreeOf(heap, Top(arrays))

\* C17: while a rule is matched through disable_action no action is called,
\* for it or for a rule nested in it, and the result slot, the three stacks
\* and the values are left as they were, whether the match succeeds or fails;
\* the caller is given the outcome of the match: after success the engine is
\* past the value, after failure it is where the match began, and the run on
\* the text of a value still accepts that text to its end.
C17_DisableAction ==
    /\ [](mode.on => pending = <<>>)
    /\ [](pc # "error" /\ mode.ret # "error")
    /\ [](Complete => text = Serialize(doc) \o <<"eof">>)
    /\ [][mode.on =>
             /\ UNCHANGED <<result, keys, arrays, objects, heap, acc, unified>>
             /\ mode'.on => pending' = <<>>
             /\ (~mode'.on /\ mode'.ret = "true") =>
                   /\ Len(text') > mode.at
                   /\ Len(ctx') = mode.base /\ Top(ctx') = AfterValue(mode.frame)
                   /\ pending' = ValueEvents(mode.frame)
             /\ (~mode'.on /\ mode'.ret = "false") =>
                   /\ Len(text) = mode.at
                   /\ pending' = match(ctx, Top(text')).events
         ]_vars

\* Of [[20]] the inner array has been matched through disable_action: the
\* match succeeded, no value was created for it or its element, and the
\* element action of the outer array is the next to be called.
C17_Witness ==
    /\ text = <<"[", "[", "20", "]">>
    /\ mode.ret = "true" /\ ~mode.on /\ mode.at = 1
    /\ Calls("array_element")
    /\ result = 0 /\ arrays = <<1>> /\ objects = <<>> /\ keys = <<>>
    /\ Allocated(heap) = {1}

\* Of [] the value the array could start with has been tried through
\* disable_action and is not there: the match failed and nothing changed.
C17_FailureWitness ==
    /\ text = <<"[", "]">>
    /\ mode.ret = "false" /\ ~mode.on /\ mode.at = 1
    /\ Calls("array_end")
    /\ result = 0 /\ arrays = <<1>>

\* C11: every run starts with the result slot and the three stacks empty and
\* no value alive; the second run on an input takes the steps the first took,
\* each in the state the first took it in, and ends where the first ended,
\* with the same root or the same failure.
C11_Deterministic ==
    /\ (log.on /\ log.steps = <<>>) =>
          /\ result = 0 /\ keys = <<>> /\ arrays = <<>> /\ objects = <<>>
          /\ Allocated(heap) = {}
          /\ pc = "parse"
    /\ prev.ran =>
          /\ Len(log.steps) <= Len(prev.steps)
          /\ \A i \in DOMAIN log.steps : log.steps[i] = prev.steps[i]
          /\ Ended => (Len(log.steps) = Len(prev.steps) /\ Snap = prev.end)
          /\ Len(log.steps) = Len(prev.steps) => (Ended /\ Snap = prev.end)

\* [20] has been read twice: the second run has printed the array the first
\* printed.
C11_Witness ==
    /\ prev.ran
    /\ pc = "done"
    /\ text = <<"[", "20", "]", "eof">>
    /\ out = ArrayOf(<<Leaf("number", 20, <<>>)>>)
    /\ prev.end.out = out

\* {"":} has been read twice: the second run has failed at the } as the
\* first did, an object and a key left on the stacks.
C11_FailureWitness ==
    /\ prev.ran
    /\ pc = "error"
    /\ text = <<"{", Quote, Quote, ":">>
    /\ keys = <<<<>>>> /\ objects # <<>>
    /\ prev.end.pc = "error" /\ prev.end.keys = keys
    /\ log.steps[Len(log.steps)].step = "}"

====
